---------------------------- MODULE Spec2Model ----------------------------
(***************************************************************************)
(* A model of yata's windowed extremum methods (Highest, Lowest,          *)
(* HighestLowestDelta) and of two indicators (Example and                 *)
(* PivotReversalStrategy) with their configurations.                      *)
(*                                                                         *)
(* ValueType (f64) is modelled by integers: the values stand for finite   *)
(* floats, on which comparison, max, min and the subtraction of two small *)
(* values are exact.  NaN and the infinities are outside the model.       *)
(*                                                                         *)
(* Instances share no state, so each behaviour exercises one unit; the    *)
(* variable unit names it and the other units stay as constructed.        *)
(***************************************************************************)
EXTENDS Integers, Sequences, FiniteSets

\* ------------------------------------------------------------------ bounds
\* Inputs of the methods are drawn from 0..MaxVal.
MaxVal == 2
\* Window lengths of the methods are drawn from 1..MaxLen.
MaxLen == 3
\* Number of inputs fed to each method.
MaxSteps == 4

\* Number of candles fed to an ExampleInstance.
ExMaxSteps == 6

\* Highs and lows of the candles fed to a PivotReversalStrategy: 0..PrsMaxPrice.
PrsMaxPrice == 2
\* left and right of a PivotReversalStrategy are drawn from 1..PrsMaxLen.
PrsMaxLen == 2
\* Number of candles fed to a PivotReversalStrategyInstance.
PrsMaxSteps == 3

\* Longest value string given to set.
MaxStrLen == 2

Values == 0..MaxVal
Lengths == 1..MaxLen

VARIABLES
    unit,       \* the unit this behaviour exercises
    m_len,      \* methods: the length the three methods were built with
    m_seed,     \* methods: the seed value they were built with
    m_tape,     \* methods: the inputs x_0, x_1, ... (1-based here)
    m_pc,       \* methods: which method the loop body calls next
    highest,    \* a Highest
    lowest,     \* a Lowest
    hld,        \* a HighestLowestDelta
    h_out,      \* outputs of highest.next so far
    l_out,      \* outputs of lowest.next so far
    d_out,      \* outputs of hld.next so far
    ex,         \* an ExampleInstance
    ex_crosses, \* Example: what cross.next returned at each step so far
    ex_results, \* Example: the IndicatorResult next returned at each step so far
    prs,        \* a PivotReversalStrategyInstance
    prs_seed,   \* PivotReversalStrategy: the candle given to init
    prs_candles,\* PivotReversalStrategy: the candles given to next so far
    prs_pivots, \* PivotReversalStrategy: the analogs <<swh, swl>> of each step so far
    prs_results,\* PivotReversalStrategy: the IndicatorResult of each step so far
    prs_evicted,\* PivotReversalStrategy: the past_candle of each step so far
    ex_cfg,     \* configs: an Example
    prs_cfg,    \* configs: a PivotReversalStrategy
    cfg_call,   \* configs: the last call of set, with its outcome
    cfg_built   \* configs: the instance init built from the config, if any

methodVars == <<m_len, m_seed, m_tape, m_pc, highest, lowest, hld, h_out, l_out, d_out>>
exVars == <<ex, ex_crosses, ex_results>>
prsVars == <<prs, prs_seed, prs_candles, prs_pivots, prs_results, prs_evicted>>
cfgVars == <<ex_cfg, prs_cfg, cfg_call, cfg_built>>
vars == <<unit, methodVars, exVars, prsVars, cfgVars>>

\* ----------------------------------------------------------------- helpers
Max2(a, b) == IF a >= b THEN a ELSE b
Min2(a, b) == IF a <= b THEN a ELSE b

\* iter().fold(init, |a, b| a.max(b)) over a window, oldest first
RECURSIVE FoldMax(_, _)
FoldMax(acc, s) == IF s = <<>> THEN acc ELSE FoldMax(Max2(acc, Head(s)), Tail(s))

RECURSIVE FoldMin(_, _)
FoldMin(acc, s) == IF s = <<>> THEN acc ELSE FoldMin(Min2(acc, Head(s)), Tail(s))

\* ------------------------------------------------------------------ Window
\* Window::new(size, value): size slots, all holding value
WindowNew(size, value) == [i \in 1..size |-> value]

\* a push that hands back the newest element of the window, not the oldest
WindowPush_ReturnsNewest(w, value) ==
    [window |-> Append(Tail(w), value), evicted |-> w[Len(w)]]

\* Window::push(value): appends value, evicts and returns the oldest element
WindowPush(w, value) == [window |-> Append(Tail(w), value), evicted |-> Head(w)]

\* ----------------------------------------------------------------- Highest
HighestNew(length, value) == [value |-> value, window |-> WindowNew(length, value)]

\* a Highest that keeps its cached maximum instead of rescanning the window
HighestNext_NoRescan(self, value) ==
    LET w == WindowPush(self.window, value).window
    IN  [value |-> IF value > self.value THEN value ELSE self.value, window |-> w]

\* a Highest that rescans the window as it was before the push
HighestNext_ScanBeforePush(self, value) ==
    LET w == WindowPush(self.window, value).window
    IN  [value |-> IF value > self.value THEN value ELSE FoldMax(value, self.window),
         window |-> w]

\* Highest::next
HighestNext(self, value) ==
    LET w == WindowPush(self.window, value).window
    IN  [value |-> IF value > self.value THEN value ELSE FoldMax(value, w),
         window |-> w]

\* ------------------------------------------------------------------ Lowest
LowestNew(length, value) == [value |-> value, window |-> WindowNew(length, value)]

\* a Lowest that keeps its cached minimum instead of rescanning the window
LowestNext_NoRescan(self, value) ==
    LET w == WindowPush(self.window, value).window
    IN  [value |-> IF value < self.value THEN value ELSE self.value, window |-> w]

\* a Lowest that rescans the window as it was before the push
LowestNext_ScanBeforePush(self, value) ==
    LET w == WindowPush(self.window, value).window
    IN  [value |-> IF value < self.value THEN value ELSE FoldMin(value, self.window),
         window |-> w]

\* Lowest::next
LowestNext(self, value) ==
    LET w == WindowPush(self.window, value).window
    IN  [value |-> IF value < self.value THEN value ELSE FoldMin(value, w),
         window |-> w]

\* ------------------------------------------------------ HighestLowestDelta
\* a delta whose Lowest is seeded with zero, not with the given value
HighestLowestDeltaNew_UnseededLowest(length, value) ==
    [highest |-> HighestNew(length, value), lowest |-> LowestNew(length, 0)]

\* HighestLowestDelta::new
HighestLowestDeltaNew(length, value) ==
    [highest |-> HighestNew(length, value), lowest |-> LowestNew(length, value)]

\* a delta with its operands swapped
HighestLowestDeltaNext_Swapped(self, value) ==
    LET h == HighestNext(self.highest, value)
        l == LowestNext(self.lowest, value)
    IN  [self |-> [highest |-> h, lowest |-> l], out |-> l.value - h.value]

\* a delta that reads the lowest without advancing it
HighestLowestDeltaNext_StaleLowest(self, value) ==
    LET h == HighestNext(self.highest, value)
        l == LowestNext(self.lowest, value)
    IN  [self |-> [highest |-> h, lowest |-> l], out |-> h.value - self.lowest.value]

\* next: the new state and the returned value
HighestLowestDeltaNext(self, value) ==
    LET h == HighestNext(self.highest, value)
        l == LowestNext(self.lowest, value)
    IN  [self |-> [highest |-> h, lowest |-> l], out |-> h.value - l.value]

\* ------------------------------------------------------------------ Action
\* An Action is none, buy-like or sell-like, with a strength (a ratio num/den).
ActionNone == [kind |-> "None", num |-> 0, den |-> 1]
ActionBuy(num, den) == [kind |-> "Buy", num |-> num, den |-> den]
ActionSell(num, den) == [kind |-> "Sell", num |-> num, den |-> den]

\* Action::from of the number num/den (den > 0): zero is none, a positive value
\* buy-like and a negative one sell-like, of the same magnitude
ActionFrom(num, den) ==
    IF num = 0 THEN ActionNone
    ELSE IF num > 0 THEN ActionBuy(num, den)
    ELSE ActionSell(-num, den)

\* Action::analog: the sign of the action
Analog(a) == IF a.kind = "Buy" THEN 1 ELSE IF a.kind = "Sell" THEN -1 ELSE 0

\* ------------------------------------------------------------------ Candle
Candle(o, h, l, c) == [open |-> o, high |-> h, low |-> l, close |-> c]

\* --------------------------------------------------------- IndicatorResult
\* IndicatorResult::new(values, signals) keeps both slices
IndicatorResultNew(values, signals) == [values |-> values, signals |-> signals]

\* ------------------------------------------------------------------- Cross
Sign(x) == IF x > 0 THEN 1 ELSE IF x < 0 THEN -1 ELSE 0

\* Cross::default(): no previous sign of (A - B) yet
CrossDefault == [seen |-> FALSE, sign |-> 0]

\* Cross::next((a, b)): upward when the sign of (a - b) goes from non-positive
\* to positive, downward when it goes from non-negative to negative, none
\* otherwise and on the first step
CrossNext(self, a, b) ==
    LET cur == Sign(a - b)
    IN  [self |-> [seen |-> TRUE, sign |-> cur],
         out  |-> IF ~self.seen THEN ActionNone
                  ELSE IF self.sign <= 0 /\ cur > 0 THEN ActionBuy(1, 1)
                  ELSE IF self.sign >= 0 /\ cur < 0 THEN ActionSell(1, 1)
                  ELSE ActionNone]

\* ----------------------------------------------------------- str::parse
\* A string is a sequence of characters.
DigitChars == <<"0", "1", "2", "3", "4", "5", "6", "7", "8", "9">>
IsDigit(c) == \E i \in DOMAIN DigitChars : DigitChars[i] = c
DigitVal(c) == (CHOOSE i \in DOMAIN DigitChars : DigitChars[i] = c) - 1

\* the number a string of decimal digits denotes, most significant digit first
RECURSIVE DecimalVal(_, _)
DecimalVal(acc, s) ==
    IF s = <<>> THEN acc ELSE DecimalVal(10 * acc + DigitVal(Head(s)), Tail(s))

AllDigits(s) == s # <<>> /\ \A i \in DOMAIN s : IsDigit(s[i])

ParseErr == [ok |-> FALSE, value |-> 0]
ParseOk(v) == [ok |-> TRUE, value |-> v]

\* parse::<PeriodType>(), an unsigned integer: an optional "+" and digits; a
\* "-" is an invalid digit.  The strings of the model stay below the type's
\* maximum.
ParsePeriodType(s) ==
    LET t == IF s # <<>> /\ Head(s) = "+" THEN Tail(s) ELSE s
    IN  IF AllDigits(t) THEN ParseOk(DecimalVal(0, t)) ELSE ParseErr

\* parse::<ValueType>(), a float, on strings of a sign and digits: an optional
\* sign and at least one digit ("-0" is -0.0, which equals 0.0)
ParseValueType(s) ==
    LET signed == s # <<>> /\ Head(s) \in {"+", "-"}
        t == IF signed THEN Tail(s) ELSE s
    IN  IF ~AllDigits(t) THEN ParseErr
        ELSE IF signed /\ Head(s) = "-" THEN ParseOk(0 - DecimalVal(0, t))
        ELSE ParseOk(DecimalVal(0, t))

\* parse::<Source>(): the name of a source
ParseSource(s) ==
    IF s = <<"c", "l", "o", "s", "e">> THEN [ok |-> TRUE, value |-> "Close"]
    ELSE IF s = <<"o", "p", "e", "n">> THEN [ok |-> TRUE, value |-> "Open"]
    ELSE [ok |-> FALSE, value |-> "Close"]

\* ----------------------------------------------------------------- Example
\* Example::default()
ExampleDefault == [price |-> 2, period |-> 3, source |-> "Close"]

\* Example::validate
ExampleValidate(cfg) == cfg.price > 0

\* Example::set: the config after the call and how the call ended: "ok" when
\* it returned (), "panic" when unwrap aborted on a value that does not parse.
\* An unknown name is printed by dbg! and the call returns ().
ExampleSet(cfg, name, value) ==
    IF name = "price"
    THEN LET p == ParseValueType(value)
         IN  IF p.ok THEN [cfg |-> [cfg EXCEPT !.price = p.value], outcome |-> "ok"]
             ELSE [cfg |-> cfg, outcome |-> "panic"]
    ELSE [cfg |-> cfg, outcome |-> "ok"]

\* Example::size
ExampleSize == <<1, 2>>

\* Example::init
ExampleInit(cfg, candle) ==
    [cfg |-> cfg, cross |-> CrossDefault,
     last_signal |-> ActionNone, last_signal_position |-> 0]

\* a result that leaves out the second signal
ExampleResult_OneSignal(candle, signal) ==
    IndicatorResultNew(<<candle.close>>, <<signal>>)

\* the result of ExampleInstance::next: the close, the signal and
\* some_other_signal = Action::from(0.5)
ExampleResult(candle, signal) ==
    LET some_other_signal == ActionFrom(1, 2)
    IN  IndicatorResultNew(<<candle.close>>, <<signal, some_other_signal>>)

\* a next that remembers the signal of a crossing and returns it
ExampleInstanceNext_RemembersCrossing(self, candle) ==
    LET c == CrossNext(self.cross, candle.close, self.cfg.price)
        new_signal == c.out
        position == self.last_signal_position + 1
        step ==
            IF new_signal.kind = "None"
            THEN [last_signal |-> new_signal, last_signal_position |-> 0,
                  signal |-> new_signal]
            ELSE IF self.last_signal.kind = "None"
            THEN [last_signal |-> new_signal,
                  last_signal_position |-> self.last_signal_position,
                  signal |-> new_signal]
            ELSE LET last == IF position > self.cfg.period
                             THEN ActionNone ELSE self.last_signal
                 IN  [last_signal |-> last, last_signal_position |-> position,
                      signal |-> last]
    IN  [self |-> [cfg |-> self.cfg, cross |-> c.self,
                   last_signal |-> step.last_signal,
                   last_signal_position |-> step.last_signal_position],
         cross |-> new_signal,
         result |-> ExampleResult(candle, step.signal)]

\* ExampleInstance::next: the new state, what cross returned, and the result
ExampleInstanceNext(self, candle) ==
    LET c == CrossNext(self.cross, candle.close, self.cfg.price)
        new_signal == c.out
        position == self.last_signal_position + 1
        step ==
            IF new_signal.kind = "None"
            THEN [last_signal |-> new_signal, last_signal_position |-> 0,
                  signal |-> new_signal]
            ELSE IF self.last_signal.kind = "None"
            THEN [last_signal |-> self.last_signal,
                  last_signal_position |-> self.last_signal_position,
                  signal |-> self.last_signal]
            ELSE LET last == IF position > self.cfg.period
                             THEN ActionNone ELSE self.last_signal
                 IN  [last_signal |-> last, last_signal_position |-> position,
                      signal |-> last]
    IN  [self |-> [cfg |-> self.cfg, cross |-> c.self,
                   last_signal |-> step.last_signal,
                   last_signal_position |-> step.last_signal_position],
         cross |-> new_signal,
         result |-> ExampleResult(candle, step.signal)]

\* ------------------------------------------ PivotHighSignal, PivotLowSignal
\* The detectors keep the last left + right + 1 values; the candidate is the
\* value right steps in the past.
PivotHighSignalNew(left, right, value) ==
    [left |-> left, right |-> right, window |-> WindowNew(left + right + 1, value)]

\* next: confirmed when the candidate is strictly above the left values before
\* it and the right values after it
PivotHighSignalNext(self, value) ==
    LET w == WindowPush(self.window, value).window
        at == self.left + 1
    IN  [self |-> [self EXCEPT !.window = w],
         out  |-> IF \A i \in (DOMAIN w) \ {at} : w[i] < w[at]
                  THEN ActionBuy(1, 1) ELSE ActionNone]

PivotLowSignalNew(left, right, value) ==
    [left |-> left, right |-> right, window |-> WindowNew(left + right + 1, value)]

\* next: confirmed when the candidate is strictly below the left values before
\* it and the right values after it
PivotLowSignalNext(self, value) ==
    LET w == WindowPush(self.window, value).window
        at == self.left + 1
    IN  [self |-> [self EXCEPT !.window = w],
         out  |-> IF \A i \in (DOMAIN w) \ {at} : w[i] > w[at]
                  THEN ActionBuy(1, 1) ELSE ActionNone]

\* ---------------------------------------------------- PivotReversalStrategy
\* PivotReversalStrategy::default()
PivotReversalStrategyDefault == [left |-> 4, right |-> 2]

\* PivotReversalStrategy::validate
PivotReversalStrategyValidate(cfg) == TRUE

\* a set whose two arms both assign left
PivotReversalStrategySet_BothAssignLeft(cfg, name, value) ==
    IF name \in {"left", "right"}
    THEN LET p == ParsePeriodType(value)
         IN  IF p.ok THEN [cfg |-> [cfg EXCEPT !.left = p.value], outcome |-> "ok"]
             ELSE [cfg |-> cfg, outcome |-> "panic"]
    ELSE [cfg |-> cfg, outcome |-> "ok"]

\* PivotReversalStrategy::set: as Example::set, for left and right
PivotReversalStrategySet(cfg, name, value) ==
    IF name \in {"left", "right"}
    THEN LET p == ParsePeriodType(value)
         IN  IF p.ok THEN [cfg |-> [cfg EXCEPT ![name] = p.value], outcome |-> "ok"]
             ELSE [cfg |-> cfg, outcome |-> "panic"]
    ELSE [cfg |-> cfg, outcome |-> "ok"]

\* PivotReversalStrategy::size
PivotReversalStrategySize == <<1, 1>>

\* an init that hands the two sides to the detectors in the other order
PivotReversalStrategyInit_SwappedSides(cfg, candle) ==
    [cfg |-> cfg,
     ph |-> PivotHighSignalNew(cfg.right, cfg.left, candle.high),
     pl |-> PivotLowSignalNew(cfg.right, cfg.left, candle.low),
     window |-> WindowNew(cfg.right, candle),
     hprice |-> 0,
     lprice |-> 0]

\* an init that takes the two standing prices from the seed candle
PivotReversalStrategyInit_SeededPrices(cfg, candle) ==
    [cfg |-> cfg,
     ph |-> PivotHighSignalNew(cfg.left, cfg.right, candle.high),
     pl |-> PivotLowSignalNew(cfg.left, cfg.right, candle.low),
     window |-> WindowNew(cfg.right, candle),
     hprice |-> candle.high,
     lprice |-> candle.low]

\* PivotReversalStrategy::init
PivotReversalStrategyInit(cfg, candle) ==
    [cfg |-> cfg,
     ph |-> PivotHighSignalNew(cfg.left, cfg.right, candle.high),
     pl |-> PivotLowSignalNew(cfg.left, cfg.right, candle.low),
     window |-> WindowNew(cfg.right, candle),
     hprice |-> 0,
     lprice |-> 0]

\* a standing high price that follows the evicted candle on every step
HPriceAfter_EveryStep(swh, past_candle, hprice) == past_candle.high

\* `if swh.analog() > 0 { self.hprice = past_candle.high(); }`
HPriceAfter(swh, past_candle, hprice) == IF swh > 0 THEN past_candle.high ELSE hprice

\* `if swl.analog() > 0 { self.lprice = past_candle.low(); }`
LPriceAfter(swl, past_candle, lprice) == IF swl > 0 THEN past_candle.low ELSE lprice

\* a long exit that needs the high to be strictly below hprice
LongExit_Strict(swh, high, hprice) == IF swh > 0 \/ high < hprice THEN 1 ELSE 0

\* le: `if swh.analog() > 0 || candle.high() <= self.hprice { le = 1 }`
LongExit(swh, high, hprice) == IF swh > 0 \/ high <= hprice THEN 1 ELSE 0

\* se: `if swl.analog() > 0 || low >= self.lprice { se = 1 }`
ShortExit(swl, low, lprice) == IF swl > 0 \/ low >= lprice THEN 1 ELSE 0

\* PivotReversalStrategyInstance::next: the new state, the analogs of the two
\* detectors, and the result
PivotReversalStrategyInstanceNext(self, candle) ==
    LET high == candle.high
        low == candle.low
        pushed == WindowPush(self.window, candle)
        past_candle == pushed.evicted
        h == PivotHighSignalNext(self.ph, high)
        l == PivotLowSignalNext(self.pl, low)
        swh == Analog(h.out)
        swl == Analog(l.out)
        hprice == HPriceAfter(swh, past_candle, self.hprice)
        le == LongExit(swh, high, hprice)
        lprice == LPriceAfter(swl, past_candle, self.lprice)
        se == ShortExit(swl, low, lprice)
        r == se - le
    IN  [self |-> [cfg |-> self.cfg, ph |-> h.self, pl |-> l.self,
                   window |-> pushed.window, hprice |-> hprice, lprice |-> lprice],
         swh |-> swh,
         swl |-> swl,
         past_candle |-> past_candle,
         result |-> IndicatorResultNew(<<r>>, <<ActionFrom(r, 1)>>)]

\* --------------------------------------------------- the methods' behaviour
\* The three methods are built with the same length and seed and fed the same
\* inputs, one next call at a time, as the loops of the tests do.
Tapes == [1..MaxSteps -> Values]

MethodsInit ==
    /\ m_len \in (IF unit = "methods" THEN Lengths ELSE {1})
    /\ m_seed \in (IF unit = "methods" THEN Values ELSE {0})
    /\ m_tape \in (IF unit = "methods" THEN Tapes ELSE {[i \in 1..MaxSteps |-> 0]})
    /\ m_pc = "highest"
    /\ highest = HighestNew(m_len, m_seed)
    /\ lowest = LowestNew(m_len, m_seed)
    /\ hld = HighestLowestDeltaNew(m_len, m_seed)
    /\ h_out = <<>>
    /\ l_out = <<>>
    /\ d_out = <<>>

HighestStep ==
    /\ unit = "methods"
    /\ m_pc = "highest"
    /\ Len(h_out) < MaxSteps
    /\ highest' = HighestNext(highest, m_tape[Len(h_out) + 1])
    /\ h_out' = Append(h_out, highest'.value)
    /\ m_pc' = "lowest"
    /\ UNCHANGED <<unit, m_len, m_seed, m_tape, lowest, hld, l_out, d_out, exVars, prsVars, cfgVars>>

LowestStep ==
    /\ unit = "methods"
    /\ m_pc = "lowest"
    /\ lowest' = LowestNext(lowest, m_tape[Len(l_out) + 1])
    /\ l_out' = Append(l_out, lowest'.value)
    /\ m_pc' = "delta"
    /\ UNCHANGED <<unit, m_len, m_seed, m_tape, highest, hld, h_out, d_out, exVars, prsVars, cfgVars>>

DeltaStep ==
    /\ unit = "methods"
    /\ m_pc = "delta"
    /\ LET r == HighestLowestDeltaNext(hld, m_tape[Len(d_out) + 1])
       IN  /\ hld' = r.self
           /\ d_out' = Append(d_out, r.out)
    /\ m_pc' = "highest"
    /\ UNCHANGED <<unit, m_len, m_seed, m_tape, highest, lowest, h_out, l_out, exVars, prsVars, cfgVars>>

NextMethods == HighestStep \/ LowestStep \/ DeltaStep

\* --------------------------------------------------- Example's behaviour
\* A validated config (the default one, or one whose price was set) is
\* initialised with a seed candle and then fed one candle per step.  Example
\* reads the close of a candle only: the candles here are flat.
FlatCandles == {Candle(c, c, c, c) : c \in Values}

ExampleConfigs == {cfg \in {[ExampleDefault EXCEPT !.price = p] : p \in Values} :
                      ExampleValidate(cfg)}

ExampleUnitInit ==
    /\ ex \in (IF unit = "example"
               THEN {ExampleInit(cfg, c) : cfg \in ExampleConfigs, c \in FlatCandles}
               ELSE {ExampleInit(ExampleDefault, Candle(0, 0, 0, 0))})
    /\ ex_crosses = <<>>
    /\ ex_results = <<>>

ExampleStep(candle) ==
    /\ unit = "example"
    /\ Len(ex_results) < ExMaxSteps
    /\ LET r == ExampleInstanceNext(ex, candle)
       IN  /\ ex' = r.self
           /\ ex_crosses' = Append(ex_crosses, r.cross)
           /\ ex_results' = Append(ex_results, r.result)
    /\ UNCHANGED <<unit, methodVars, prsVars, cfgVars>>

NextExample == \E candle \in FlatCandles : ExampleStep(candle)

\* ------------------------------------- PivotReversalStrategy's behaviour
\* A config with positive left and right is initialised with a seed candle and
\* then fed one candle per step.  The strategy reads the high and the low of a
\* candle only: here a candle opens at its low and closes at its high.
Prices == 0..PrsMaxPrice
PrsCandles == {Candle(p[1], p[2], p[1], p[2]) :
                  p \in {q \in Prices \X Prices : q[1] <= q[2]}}
PrsConfigs == [left : 1..PrsMaxLen, right : 1..PrsMaxLen]

PrsUnitInit ==
    /\ prs_seed \in (IF unit = "pivot" THEN PrsCandles ELSE {Candle(0, 0, 0, 0)})
    /\ prs \in (IF unit = "pivot"
                THEN {PivotReversalStrategyInit(cfg, prs_seed) : cfg \in PrsConfigs}
                ELSE {PivotReversalStrategyInit(PivotReversalStrategyDefault, prs_seed)})
    /\ prs_candles = <<>>
    /\ prs_pivots = <<>>
    /\ prs_results = <<>>
    /\ prs_evicted = <<>>

PrsStep(candle) ==
    /\ unit = "pivot"
    /\ Len(prs_results) < PrsMaxSteps
    /\ LET r == PivotReversalStrategyInstanceNext(prs, candle)
       IN  /\ prs' = r.self
           /\ prs_pivots' = Append(prs_pivots, <<r.swh, r.swl>>)
           /\ prs_results' = Append(prs_results, r.result)
           /\ prs_evicted' = Append(prs_evicted, r.past_candle)
    /\ prs_candles' = Append(prs_candles, candle)
    /\ UNCHANGED <<unit, methodVars, exVars, prs_seed, cfgVars>>

NextPivot == \E candle \in PrsCandles : PrsStep(candle)

\* -------------------------------------------------- the configs' behaviour
\* A default config has its fields set by name, any number of times, until a
\* call aborts the process; the caller checks validate and calls init.
Alphabet == {"0", "2", "-"}
Strs == UNION {[1..n -> Alphabet] : n \in 0..MaxStrLen}
SetValues == Strs \cup {<<"c", "l", "o", "s", "e">>, <<"o", "p", "e", "n">>}
SetNames == {"price", "period", "source", "left", "right", "length"}
NoCall == [on |-> "none", name |-> "", value |-> <<>>, outcome |-> "none"]
SeedCandle == Candle(1, 1, 1, 1)

ConfigsInit ==
    /\ ex_cfg = ExampleDefault
    /\ prs_cfg = PivotReversalStrategyDefault
    /\ cfg_call = NoCall
    /\ cfg_built = <<>>

ExampleSetCall(name, value) ==
    /\ unit = "example_config"
    /\ cfg_call.outcome # "panic"
    /\ cfg_built = <<>>
    /\ LET r == ExampleSet(ex_cfg, name, value)
       IN  /\ ex_cfg' = r.cfg
           /\ cfg_call' = [on |-> "Example", name |-> name, value |-> value,
                           outcome |-> r.outcome]
    /\ UNCHANGED <<unit, methodVars, exVars, prsVars, prs_cfg, cfg_built>>

ExampleInitCall ==
    /\ unit = "example_config"
    /\ cfg_call.outcome # "panic"
    /\ cfg_built = <<>>
    /\ ExampleValidate(ex_cfg)
    /\ cfg_built' = <<ExampleInit(ex_cfg, SeedCandle)>>
    /\ UNCHANGED <<unit, methodVars, exVars, prsVars, ex_cfg, prs_cfg, cfg_call>>

PivotReversalStrategySetCall(name, value) ==
    /\ unit = "pivot_config"
    /\ cfg_call.outcome # "panic"
    /\ cfg_built = <<>>
    /\ LET r == PivotReversalStrategySet(prs_cfg, name, value)
       IN  /\ prs_cfg' = r.cfg
           /\ cfg_call' = [on |-> "PivotReversalStrategy", name |-> name,
                           value |-> value, outcome |-> r.outcome]
    /\ UNCHANGED <<unit, methodVars, exVars, prsVars, ex_cfg, cfg_built>>

PivotReversalStrategyInitCall ==
    /\ unit = "pivot_config"
    /\ cfg_call.outcome # "panic"
    /\ cfg_built = <<>>
    /\ PivotReversalStrategyValidate(prs_cfg)
    /\ cfg_built' = <<PivotReversalStrategyInit(prs_cfg, SeedCandle)>>
    /\ UNCHANGED <<unit, methodVars, exVars, prsVars, ex_cfg, prs_cfg, cfg_call>>

NextConfigs ==
    \/ \E name \in SetNames, value \in SetValues : ExampleSetCall(name, value)
    \/ ExampleInitCall
    \/ \E name \in SetNames, value \in SetValues :
           PivotReversalStrategySetCall(name, value)
    \/ PivotReversalStrategyInitCall

\* ------------------------------------------------------ the specifications
Units == {"methods", "example", "pivot", "example_config", "pivot_config"}

Init ==
    /\ unit \in Units
    /\ MethodsInit
    /\ ExampleUnitInit
    /\ PrsUnitInit
    /\ ConfigsInit

Next == NextMethods \/ NextExample \/ NextPivot \/ NextConfigs

Spec == Init /\ [][Next]_vars

InitMethods == Init /\ unit = "methods"
SpecMethods == InitMethods /\ [][NextMethods]_vars

InitExample == Init /\ unit = "example"
SpecExample == InitExample /\ [][NextExample]_vars

InitPivot == Init /\ unit = "pivot"
SpecPivot == InitPivot /\ [][NextPivot]_vars

InitConfigs == Init /\ unit \in {"example_config", "pivot_config"}
SpecConfigs == InitConfigs /\ [][NextConfigs]_vars

InitIndicators == Init /\ unit \in {"example", "pivot"}
NextIndicators == NextExample \/ NextPivot
SpecIndicators == InitIndicators /\ [][NextIndicators]_vars

\* ------------------------------------------------------------ the claims
\* the maximum and the minimum of a non-empty finite set of numbers
SetMax(S) == CHOOSE x \in S : \A y \in S : y <= x
SetMin(S) == CHOOSE x \in S : \A y \in S : x <= y

\* the last min(i, length) inputs ending at the i-th one (1-based)
LastInputs(i) == {m_tape[j] : j \in Max2(1, i - m_len + 1)..i}

\* C2: built as Highest::new(L, x_0), the i-th output of Highest is the
\* maximum of the last min(i+1, L) inputs ending at x_i.
C2_HighestIsMaxOfLastInputs ==
    (unit = "methods" /\ m_seed = m_tape[1]) =>
        \A i \in 1..Len(h_out) : h_out[i] = SetMax(LastInputs(i))

\* C2 witness: the maximum left the window and the output dropped
C2_Witness ==
    /\ unit = "methods" /\ m_seed = m_tape[1] /\ m_len >= 2
    /\ \E i \in 1..(Len(h_out) - 1) : i >= m_len /\ h_out[i + 1] < h_out[i]

\* C3: built as Lowest::new(L, x_0), the i-th output of Lowest is the minimum
\* of the last min(i+1, L) inputs ending at x_i.
C3_LowestIsMinOfLastInputs ==
    (unit = "methods" /\ m_seed = m_tape[1]) =>
        \A i \in 1..Len(l_out) : l_out[i] = SetMin(LastInputs(i))

\* C3 witness: the minimum left the window and the output rose
C3_Witness ==
    /\ unit = "methods" /\ m_seed = m_tape[1] /\ m_len >= 2
    /\ \E i \in 1..(Len(l_out) - 1) : i >= m_len /\ l_out[i + 1] > l_out[i]

\* C4: at every step HighestLowestDelta(L) returns the output of Highest(L)
\* minus the output of Lowest(L) on the same seed and inputs, which is >= 0
\* and, when the seed is x_0, the max minus the min of the last min(i+1, L)
\* inputs.
C4_DeltaIsHighestMinusLowest ==
    unit = "methods" =>
        \A i \in 1..Len(d_out) :
            /\ d_out[i] = h_out[i] - l_out[i]
            /\ d_out[i] >= 0
            /\ m_seed = m_tape[1] =>
                   d_out[i] = SetMax(LastInputs(i)) - SetMin(LastInputs(i))

\* C4 witness: a delta that grew and then shrank over a window of several values
C4_Witness ==
    /\ unit = "methods" /\ m_seed = m_tape[1] /\ m_len >= 2
    /\ \E i \in 1..(Len(d_out) - 2) :
           d_out[i] < d_out[i + 1] /\ d_out[i + 2] < d_out[i + 1]

\* C5: a HighestLowestDelta of length 1 returns 0 on every call, whatever the
\* inputs and the seed.
C5_DeltaOfLengthOneIsZero ==
    (unit = "methods" /\ m_len = 1) => \A i \in 1..Len(d_out) : d_out[i] = 0

\* C5 witness: length 1, a seed that differs from the first input, inputs that vary
C5_Witness ==
    /\ unit = "methods" /\ m_len = 1 /\ m_seed # m_tape[1]
    /\ Len(d_out) >= 3
    /\ m_tape[1] < m_tape[2] /\ m_tape[3] < m_tape[2]

\* C1: once cross returns a non-none signal at step k, next reports that signal
\* as its first signal on steps k+1..k+period and none on step k+period+1,
\* unless cross returns a new signal earlier.
C1_SignalPersistsForPeriod ==
    unit = "example" =>
        \A k \in 1..Len(ex_crosses) :
            ex_crosses[k].kind # "None" =>
                \A j \in (k + 1)..Len(ex_results) :
                    (\A m \in (k + 1)..j : ex_crosses[m].kind = "None") =>
                        /\ j <= k + ex.cfg.period =>
                               ex_results[j].signals[1] = ex_crosses[k]
                        /\ j = k + ex.cfg.period + 1 =>
                               ex_results[j].signals[1] = ActionNone

\* the fields of a config, and the parse of a value into a field's type
FieldsOf(on) == IF on = "Example" THEN {"price", "period", "source"}
                ELSE {"left", "right"}
ParseField(name, value) ==
    IF name = "price" THEN ParseValueType(value)
    ELSE IF name \in {"period", "left", "right"} THEN ParsePeriodType(value)
    ELSE IF name = "source" THEN ParseSource(value)
    ELSE ParseErr
ConfigOf(on) == IF on = "Example" THEN ex_cfg ELSE prs_cfg

\* C6: set called with an unrecognized field name, or with a value that does
\* not parse into the field's type, never aborts: it returns a recoverable
\* error to the caller.
C6_SetReturnsRecoverableError ==
    (cfg_call.on # "none"
        /\ (\/ cfg_call.name \notin FieldsOf(cfg_call.on)
            \/ ~ParseField(cfg_call.name, cfg_call.value).ok))
    => cfg_call.outcome = "error"

\* C7: validate returns false for an Example with price <= 0 and for a
\* PivotReversalStrategy with left = 0 or right = 0, so init never builds a
\* zero-length window or pivot detector from a config that passed validate.
C7_ValidateRejectsInvalidConfigs ==
    /\ ex_cfg.price <= 0 => ~ExampleValidate(ex_cfg)
    /\ (prs_cfg.left = 0 \/ prs_cfg.right = 0) =>
           ~PivotReversalStrategyValidate(prs_cfg)
    /\ (unit = "pivot_config" /\ cfg_built # <<>>) =>
           /\ Len(cfg_built[1].window) > 0
           /\ cfg_built[1].ph.left > 0 /\ cfg_built[1].ph.right > 0
           /\ cfg_built[1].pl.left > 0 /\ cfg_built[1].pl.right > 0

\* C8: for every field of a config and every string that parses into the
\* field's type, set(field_name, value) stores the parsed value in that field.
C8_EveryFieldIsSettableByName ==
    (cfg_call.on # "none"
        /\ cfg_call.name \in FieldsOf(cfg_call.on)
        /\ ParseField(cfg_call.name, cfg_call.value).ok)
    => ConfigOf(cfg_call.on)[cfg_call.name] =
           ParseField(cfg_call.name, cfg_call.value).value

\* C9: on every step the result of next has size().0 raw values and size().1
\* signals: 1 and 2 for ExampleInstance, 1 and 1 for
\* PivotReversalStrategyInstance.
C9_ResultShapeMatchesSize ==
    /\ ExampleSize = <<1, 2>>
    /\ PivotReversalStrategySize = <<1, 1>>
    /\ \A i \in 1..Len(ex_results) :
           /\ Len(ex_results[i].values) = ExampleSize[1]
           /\ Len(ex_results[i].signals) = ExampleSize[2]
    /\ \A i \in 1..Len(prs_results) :
           /\ Len(prs_results[i].values) = PivotReversalStrategySize[1]
           /\ Len(prs_results[i].signals) = PivotReversalStrategySize[2]

\* C9 witness: a PivotReversalStrategyInstance returned results of different
\* values, one of them on a step that confirmed a pivot
C9_Witness ==
    /\ unit = "pivot" /\ Len(prs_results) >= 3
    /\ \E i, j \in 1..Len(prs_results) :
           /\ prs_results[i].signals[1].kind = "None"
           /\ prs_results[j].signals[1].kind = "Buy"
    /\ \E i \in 1..Len(prs_pivots) : prs_pivots[i][1] > 0

\* C10: at every step next outputs r = se - le, where le is 1 iff a pivot-high
\* is confirmed at this step or the candle's high is <= hprice, and se is 1 iff
\* a pivot-low is confirmed at this step or the candle's low is >= lprice; r is
\* in {-1, 0, 1}, the raw value is r and the signal is Action::from(r), none
\* exactly when r = 0.
C10_NetSignalIsShortExitMinusLongExit ==
    (unit = "pivot" /\ prs_results # <<>>) =>
        LET n == Len(prs_results)
            candle == prs_candles[n]
            le == IF prs_pivots[n][1] > 0 \/ candle.high <= prs.hprice THEN 1 ELSE 0
            se == IF prs_pivots[n][2] > 0 \/ candle.low >= prs.lprice THEN 1 ELSE 0
            r == se - le
        IN  /\ r \in {-1, 0, 1}
            /\ prs_results[n].values = <<r>>
            /\ prs_results[n].signals = <<ActionFrom(r, 1)>>
            /\ prs_results[n].signals[1].kind = "None" <=> r = 0

\* C10 witness: both exits decided by the standing prices alone (no pivot is
\* confirmed at this step): the step returns -1 after an earlier step returned +1
C10_Witness ==
    /\ unit = "pivot" /\ prs_results # <<>>
    /\ LET n == Len(prs_results)
       IN  /\ prs_pivots[n] = <<0, 0>>
           /\ prs_results[n].values = <<-1>>
           /\ prs_results[n].signals[1].kind = "Sell"
           /\ prs.lprice > 0
           /\ \E i \in 1..(n - 1) : prs_results[i].values = <<1>>

\* ------------------------------------------------------------------ C11
\* the candle of step k of the pivot run; the seed candle stands at every
\* step before the first one, as it fills every slot at construction
PrsFed(k) == IF k >= 1 THEN prs_candles[k] ELSE prs_seed

\* the high of step i is strictly above the highs of the left steps before
\* it and of the right steps after it
StrictHighAt(i) ==
    \A k \in ((i - prs.cfg.left)..(i + prs.cfg.right)) \ {i} :
        PrsFed(k).high < PrsFed(i).high

\* the low of step i is strictly below the lows of the left steps before it
\* and of the right steps after it
StrictLowAt(i) ==
    \A k \in ((i - prs.cfg.left)..(i + prs.cfg.right)) \ {i} :
        PrsFed(k).low > PrsFed(i).low

\* C11: the pivot-high (pivot-low) detector of PivotReversalStrategy reports
\* a positive analog at step n exactly when the high (low) of step n - right
\* is the strict maximum (minimum) among the left values before it and the
\* right values after it: an extremum of step i is reported at step
\* i + right, and no step before i + right reports it.
C11_PivotIsConfirmedAfterRightSteps ==
    unit = "pivot" =>
        \A n \in 1..Len(prs_pivots) :
            /\ prs_pivots[n][1] > 0 <=> StrictHighAt(n - prs.cfg.right)
            /\ prs_pivots[n][2] > 0 <=> StrictLowAt(n - prs.cfg.right)

\* a run with left = 2 and right = 1 in which the high of step 2 is reported
\* at step 3 and not at step 2, and a pivot-low is reported too
C11_Witness ==
    /\ unit = "pivot"
    /\ prs.cfg.left = 2 /\ prs.cfg.right = 1
    /\ Len(prs_pivots) = 3
    /\ prs_pivots[2][1] = 0 /\ prs_pivots[3][1] > 0
    /\ StrictHighAt(2)
    /\ \E m \in 1..3 : prs_pivots[m][2] > 0

\* ------------------------------------------------------------------ C12
\* C12: the window of PivotReversalStrategy, built by Window::new(right, seed),
\* always holds exactly right candles, the last right of the seed copies
\* followed by the candles pushed so far, oldest first; the k-th push returns
\* the seed while k <= right and the candle of push k - right afterwards, so
\* after right pushes no seed slot is left.
C12_WindowKeepsTheLastCapacityValues ==
    unit = "pivot" =>
        LET C == prs.cfg.right
            n == Len(prs_candles)
        IN  /\ Len(prs.window) = C
            /\ \A i \in 1..C : prs.window[i] = PrsFed(n - C + i)
            /\ Len(prs_evicted) = n
            /\ \A k \in 1..n : prs_evicted[k] = PrsFed(k - C)

\* capacity 2, three pushes of candles unlike the seed: the first two pushes
\* return the seed, the third returns the first candle, and the window holds
\* the last two candles
C12_Witness ==
    /\ unit = "pivot"
    /\ prs.cfg.right = 2
    /\ Len(prs_candles) = 3
    /\ \A k \in 1..3 : prs_candles[k] # prs_seed
    /\ prs_candles[1] # prs_candles[2]
    /\ prs_evicted = <<prs_seed, prs_seed, prs_candles[1]>>
    /\ prs.window = <<prs_candles[2], prs_candles[3]>>

SeededInput(k) == IF k >= 1 THEN m_tape[k] ELSE m_seed

\* the window after i inputs: the last m_len elements of the seed copies
\* followed by the first i inputs, oldest first
SeededWindow(i) == [j \in 1..m_len |-> SeededInput(i - m_len + j)]

\* a full rescan of a window
RescanMax(w) == SetMax({w[j] : j \in DOMAIN w})
RescanMin(w) == SetMin({w[j] : j \in DOMAIN w})

\* C15: whatever the seed, after every next of Highest (Lowest) the window
\* holds the last L elements of the seed copies followed by the inputs so far,
\* the cached value is the maximum (minimum) of the window, and every output
\* is what a rescan of the window of its step gives.
C15_ShortcutEqualsRescan ==
    unit = "methods" =>
        /\ highest.window = SeededWindow(Len(h_out))
        /\ highest.value = RescanMax(highest.window)
        /\ \A i \in 1..Len(h_out) : h_out[i] = RescanMax(SeededWindow(i))
        /\ lowest.window = SeededWindow(Len(l_out))
        /\ lowest.value = RescanMin(lowest.window)
        /\ \A i \in 1..Len(l_out) : l_out[i] = RescanMin(SeededWindow(i))

\* a seed above the first input is the first output of Highest, a later
\* output of Highest falls when the maximum leaves the window, and an output
\* of Lowest rises when the minimum leaves it
C15_Witness ==
    /\ unit = "methods"
    /\ m_len >= 2
    /\ Len(l_out) = MaxSteps
    /\ m_seed > m_tape[1]
    /\ h_out[1] = m_seed
    /\ \E i \in 2..Len(h_out) : h_out[i] < h_out[i - 1]
    /\ \E i \in 2..Len(l_out) : l_out[i] > l_out[i - 1]

\* ------------------------------------------------------------------ C17
\* the first i inputs all equal the seed
ConstantUpTo(i) == \A j \in 1..i : m_tape[j] = m_seed

\* C17: Highest, Lowest and HighestLowestDelta built with a seed v and fed v
\* on every step return on every step what they returned on the first: v for
\* Highest and Lowest, 0 for HighestLowestDelta.
C17_ConstantInputGivesConstantOutput ==
    unit = "methods" =>
        /\ \A i \in 1..Len(h_out) :
               ConstantUpTo(i) => (h_out[i] = h_out[1] /\ h_out[i] = m_seed)
        /\ \A i \in 1..Len(l_out) :
               ConstantUpTo(i) => (l_out[i] = l_out[1] /\ l_out[i] = m_seed)
        /\ \A i \in 1..Len(d_out) :
               ConstantUpTo(i) => (d_out[i] = d_out[1] /\ d_out[i] = 0)

\* the three methods, built with the longest window and a seed above zero,
\* have been fed the seed on every step of a whole run
C17_Witness ==
    /\ unit = "methods"
    /\ m_len = MaxLen
    /\ m_seed > 0
    /\ Len(d_out) = MaxSteps
    /\ ConstantUpTo(MaxSteps)
    /\ h_out[MaxSteps] = m_seed /\ l_out[MaxSteps] = m_seed /\ d_out[MaxSteps] = 0

\* ------------------------------------------------------------------ C18
\* C18: Highest and Lowest of length 1 return the current input on every
\* call, whatever the seed.
C18_LengthOneReturnsTheInput ==
    (unit = "methods" /\ m_len = 1) =>
        /\ \A i \in 1..Len(h_out) : h_out[i] = m_tape[i]
        /\ \A i \in 1..Len(l_out) : l_out[i] = m_tape[i]

\* length 1, a seed unlike the first input, and inputs that rise and fall
C18_Witness ==
    /\ unit = "methods"
    /\ m_len = 1
    /\ m_seed # m_tape[1]
    /\ Len(l_out) = MaxSteps
    /\ \E i \in 2..MaxSteps : m_tape[i] > m_tape[i - 1]
    /\ \E i \in 2..MaxSteps : m_tape[i] < m_tape[i - 1]
    /\ h_out[MaxSteps] = m_tape[MaxSteps] /\ l_out[MaxSteps] = m_tape[MaxSteps]

\* ------------------------------------------------------------------ C16
\* one step of the pivot run: hprice (lprice) becomes the high (low) of the
\* candle fed right steps before, the seed candle while there is none, when
\* the pivot-high (pivot-low) detector reports a positive analog on the step,
\* and keeps its value when it does not
C16_Step ==
    (unit = "pivot" /\ Len(prs_pivots') = Len(prs_pivots) + 1) =>
        LET n == Len(prs_pivots')
            swh == prs_pivots'[n][1]
            swl == prs_pivots'[n][2]
            past_candle == PrsFed(n - prs.cfg.right)
        IN  /\ prs'.hprice = IF swh > 0 THEN past_candle.high ELSE prs.hprice
            /\ prs'.lprice = IF swl > 0 THEN past_candle.low ELSE prs.lprice

\* C16: hprice (lprice) changes only on a step where the pivot-high
\* (pivot-low) detector reports a positive analog; it then becomes the high
\* (low) of the candle evicted from the window of capacity right, the candle
\* fed right steps before (the seed candle when there is none); on every
\* other step it is unchanged.
C16_PricesChangeOnlyOnConfirmation == [][C16_Step]_vars

\* a pivot-high was confirmed at step 2 and hprice took the high of the
\* candle fed right steps before; step 3 confirmed nothing and hprice stayed,
\* though the candle step 3 evicted has another high
C16_Witness ==
    /\ unit = "pivot"
    /\ Len(prs_pivots) = 3
    /\ prs_pivots[2][1] > 0
    /\ prs_pivots[3] = <<0, 0>>
    /\ prs.hprice = PrsFed(2 - prs.cfg.right).high
    /\ prs.hprice # PrsFed(3 - prs.cfg.right).high
    /\ prs.hprice # prs_candles[3].high
    /\ prs.hprice > 0

\* ------------------------------------------------------------------ C19
\* up to step n every candle has a high and a low above zero and neither
\* detector has confirmed a pivot
NoPivotYet(n) ==
    \A m \in 1..n :
        /\ prs_candles[m].high > 0 /\ prs_candles[m].low > 0
        /\ prs_pivots[m] = <<0, 0>>

\* C19: hprice and lprice start at 0, so while the candles have highs and
\* lows above zero and no pivot-high and no pivot-low has been confirmed, on
\* every step the long exit is 0 and the short exit is 1: the value is +1
\* (and hprice and lprice are still 0).
C19_PlusOneBeforeTheFirstPivot ==
    unit = "pivot" =>
        /\ \A n \in 1..Len(prs_results) :
               NoPivotYet(n) =>
                   /\ LongExit(0, prs_candles[n].high, 0) = 0
                   /\ ShortExit(0, prs_candles[n].low, 0) = 1
                   /\ prs_results[n].values = <<1>>
                   /\ prs_results[n].signals = <<ActionBuy(1, 1)>>
        /\ NoPivotYet(Len(prs_results)) => (prs.hprice = 0 /\ prs.lprice = 0)

\* a whole run of candles above zero, not all alike and none above the seed's
\* high, in which no pivot was confirmed and every step returned +1
C19_Witness ==
    /\ unit = "pivot"
    /\ Len(prs_results) = PrsMaxSteps
    /\ NoPivotYet(PrsMaxSteps)
    /\ \A n \in 1..PrsMaxSteps : prs_candles[n].high <= prs_seed.high
    /\ \E n \in 2..PrsMaxSteps : prs_candles[n] # prs_candles[n - 1]
    /\ \A n \in 1..PrsMaxSteps : prs_results[n].values = <<1>>

\* ------------------------------------------------------------------ C20
\* the names set recognizes: "price" on Example, "left" and "right" on
\* PivotReversalStrategy
RecognizedBy(on) == IF on = "Example" THEN {"price"} ELSE {"left", "right"}

\* one call of set, recorded in cfg_call': the fields other than the named
\* one keep their values, an unrecognized name changes nothing, and a
\* recognized name with a value that parses gives the named field that value
C20_Step ==
    cfg_call' # cfg_call =>
        LET c == cfg_call'
            old == IF c.on = "Example" THEN ex_cfg ELSE prs_cfg
            new == IF c.on = "Example" THEN ex_cfg' ELSE prs_cfg'
            p == ParseField(c.name, c.value)
        IN  /\ \A f \in FieldsOf(c.on) \ {c.name} : new[f] = old[f]
            /\ c.name \notin RecognizedBy(c.on) => new = old
            /\ (c.name \in RecognizedBy(c.on) /\ p.ok) => new[c.name] = p.value
            /\ c.on = "Example" => prs_cfg' = prs_cfg
            /\ c.on = "PivotReversalStrategy" => ex_cfg' = ex_cfg

\* C20: set changes at most the named field: with an unrecognized name it
\* leaves every field of the config unchanged, and with a recognized name
\* ("price" on Example, "left" or "right" on PivotReversalStrategy) and a
\* value that parses it changes that field only.
C20_SetChangesAtMostTheNamedField == [][C20_Step]_vars

\* right was set to a value other than its default, and the last call then
\* set left to a value other than its default: right kept what it was given
C20_Witness ==
    /\ unit = "pivot_config"
    /\ cfg_call.on = "PivotReversalStrategy"
    /\ cfg_call.name = "left"
    /\ cfg_call.outcome = "ok"
    /\ prs_cfg.left = ParsePeriodType(cfg_call.value).value
    /\ prs_cfg.left # PivotReversalStrategyDefault.left
    /\ prs_cfg.right # PivotReversalStrategyDefault.right
    /\ prs_cfg.right # prs_cfg.left

=============================================================================
